---- MODULE Spec2Model ----
(***************************************************************************)
(* ObjectAllocator<T> (debug build, MEMORYMANAGER_DEBUG) of the            *)
(* MemoryManager library, modelled at byte level for an ILP32 target:      *)
(* the code casts pointers to unsigned int (ObjectAllocator.h:396), so     *)
(* pointers, unsigned and size_t are all 32-bit words.                     *)
(*                                                                         *)
(* A 32-bit word is represented by the integer congruent to it modulo 2^32 *)
(* in [-2^31, 2^31): the word 0xFFFFFFFF is the integer -1.  Memory is a   *)
(* function from addresses to bytes 0..255: the pool's pages and, around   *)
(* each page, Margin bytes of the heap that do not belong to the pool.     *)
(* What the pool writes there stays written; reading a byte nobody wrote,  *)
(* or a bool whose byte is neither 0 nor 1, yields any value.              *)
(***************************************************************************)
EXTENDS Integers, Sequences, FiniteSets, TLC

(***************************************************************************)
(* Bounds of the model.                                                    *)
(***************************************************************************)
MinSizeofT == 3
MaxSizeofT == 5
MaxBlocksPerPage == 2
MaxPadBytes == 1
MaxAlignment == 3
MaxPages == 2
MaxAllocations == 2
MaxDeallocations == 3
MaxPadWrites == 1
\* the Pointer objects, the MM_PALLOC calls and the exceptions caught of a run
MaxPointers == 3
MaxPallocs == 2
MaxRaises == 1
\* blocksPerPage of the payload pool and of the Handle pool (1024 in the source: the
\* default of ObjectAllocatorSettings)
PayloadBlocksPerPage == 2
HandleBlocksPerPage == 2
\* addresses: the payload blocks lie above PayloadBase and the Handle blocks above
\* HandleBase; Handle::Null and the payload pool object lie where no block does
PayloadBase == 4096
HandleBase == 8192
NullAddr == 12288
PayloadPoolAddr == 16384
\* The address of the first array operator new[] hands out.
HeapBase == 16777472
\* Bytes of foreign heap modelled on each side of a page.
Margin == 16

(***************************************************************************)
(* Program constants.                                                      *)
(***************************************************************************)
PtrSize == 4
headerSize == 12
ALLOCATED == 170
FREED == 187
PAD == 221
ALIGN == 238
UNALLOCATED == 255
\* Offsets of the fields of DebugHeader {bool allocated; char const* filename; unsigned line}.
HdrFilename == 4
HdrLine == 8
\* Content of a byte of new char[n] before anything is written to it.
Indeterminate == -1

\* Call sites (address of the __FILE__ literal, __LINE__) of MM_ALLOC and MM_FREE.
AllocSites == {[file |-> 4198400, line |-> 10], [file |-> 4198464, line |-> 20]}
FreeSite == [file |-> 4198528, line |-> 30]

(***************************************************************************)
(* 32-bit unsigned machine arithmetic on the signed representatives.       *)
(***************************************************************************)
\* (a - b) mod 2^32
Sub32(a, b) ==
  IF (a >= 0) = (b >= 0) THEN a - b
  ELSE LET y == IF a >= 0 THEN (a - 2147483647 - 1) - b
                          ELSE (a + 2147483647 + 1) - b
       IN IF y >= 0 THEN y - 2147483647 - 1 ELSE y + 2147483647 + 1

\* unsigned a < b
U32Less(a, b) == IF (a >= 0) = (b >= 0) THEN a < b ELSE b < 0

\* 2^32 mod m, for 0 < m < 46341
Pow32Mod(m) == ((65536 % m) * (65536 % m)) % m

\* unsigned v % m
UMod32(v, m) == IF v >= 0 THEN v % m ELSE ((v % m) + Pow32Mod(m)) % m

\* ++v and --v on an unsigned
Inc32(v) == IF v = 2147483647 THEN -2147483647 - 1 ELSE v + 1
Dec32(v) == IF v = -2147483647 - 1 THEN 2147483647 ELSE v - 1

\* byte i (0 = least significant) of word w, and the word of four bytes
ByteOf(w, i) ==
  CASE i = 0 -> w % 256
    [] i = 1 -> (w \div 256) % 256
    [] i = 2 -> (w \div 65536) % 256
    [] i = 3 -> (w \div 16777216) % 256

WordOf(b0, b1, b2, b3) ==
  b0 + 256 * b1 + 65536 * b2 + 16777216 * (IF b3 >= 128 THEN b3 - 256 ELSE b3)

VARIABLES
  logStream,       \* "nullptr", "caller": a stream of the caller, "opened": the
                   \* std::ofstream the pool made for its log file
  ownsLogStream,   \* the bool member as a byte: 0, 1, or Indeterminate when never set
  settings,        \* ObjectAllocatorSettings and sizeof(T)
  blockSize, pageSize, leftAlign, interAlign, leftChunkSize, interChunkSize,
  mem,             \* the bytes of the pool's pages and of the margins around them
  heap,            \* base addresses of the arrays obtained from new char[pageSize]
  pageList, freeList, stats,
  last,            \* the last call: what it was given and what it returned and logged
  handedOut,       \* address returned by Allocate and not since freed with status 0
                   \* |-> the call site of that Allocate
  blocks,          \* the addresses CreatePage pushed onto the free list
  padWrites,       \* number of stray client writes so far
  fresh,           \* the page as CreatePage left it, when the last call created one
  ub,              \* "no"; "yes": memory outside the pages was accessed or a byte that
                   \* holds no bool was read as one; "fault": a pointer to no memory
                   \* was dereferenced, the call did not return
  exceptions,      \* the build defines MEMORYMANAGER_ENABLE_EXCEPTIONS
  handle,          \* address of Handle::Null or of a Handle block |-> the members
                   \* memory, allocator, refCount as the bytes there read
  handlePool,      \* Handle::HandleAllocator
  payloadPool,     \* the ObjectAllocator<T> of the objects the Pointers point to
  pointers,        \* Pointer object |-> the Handle it is bound to, 0 when no such
                   \* object exists
  op,              \* the last operation on a Pointer
  raises           \* number of exceptions thrown so far

\* the variables of the pool taken by itself, and those of the Pointers
poolvars == <<logStream, ownsLogStream, settings, blockSize, pageSize, leftAlign, interAlign, leftChunkSize,
              interChunkSize, mem, heap, pageList, freeList, stats, last, handedOut,
              blocks, padWrites, fresh>>

pointervars == <<exceptions, handle, handlePool, payloadPool, pointers, op, raises>>

vars == <<poolvars, ub, pointervars>>

(***************************************************************************)
(* Memory.                                                                 *)
(***************************************************************************)
\* memset(a, v, n) on memory m
MemSet(m, a, v, n) ==
  [x \in DOMAIN m |-> IF x >= a /\ x < a + n THEN v ELSE m[x]]

\* *(word*)a = w
WriteWord(m, a, w) ==
  [x \in DOMAIN m |-> IF x >= a /\ x < a + PtrSize THEN ByteOf(w, x - a) ELSE m[x]]

\* *(word*)a, for a with all four bytes inside m
ReadWord(m, a) == WordOf(m[a], m[a + 1], m[a + 2], m[a + 3])

InDom(m, a, n) == \A i \in 0..(n - 1) : (a + i) \in DOMAIN m

\* a pointer can be read at a: four bytes that somebody wrote
Readable(m, a) ==
  InDom(m, a, PtrSize) /\ \A i \in 0..(PtrSize - 1) : m[a + i] # Indeterminate

(***************************************************************************)
(* Constructor: the derived sizes.                                         *)
(***************************************************************************)
BlockSizeOf(sizeofT) == IF sizeofT < PtrSize THEN PtrSize ELSE sizeofT

LeftAlignOf(s) ==
  IF s.alignment > 1
  THEN UMod32(Sub32(s.alignment, PtrSize + headerSize + s.padBytes), s.alignment)
  ELSE 0

InterAlignOf(s, bs) ==
  IF s.alignment > 1
  THEN UMod32(Sub32(s.alignment, bs + headerSize + 2 * s.padBytes), s.alignment)
  ELSE 0

LeftChunkSizeOf(s, bs, la) == PtrSize + la + headerSize + 2 * s.padBytes + bs

InterChunkSizeOf(s, bs, ia) == bs + 2 * s.padBytes + ia + headerSize

CalculatePageSize(s, bs, la, ia) ==
  PtrSize + la + s.blocksPerPage * (bs + 2 * s.padBytes + headerSize + ia) - ia

ZeroStats ==
  [freeBlocks |-> 0, blocksInUse |-> 0, pagesInUse |-> 0, mostBlocksInUse |-> 0,
   mostPagesInUse |-> 0, allocations |-> 0, deallocations |-> 0]

\* The record of a call.  ret: the address Allocate returned.  status: what Free
\* returned, or -1 when the call did not return.  raised: where the build without
\* MEMORYMANAGER_ENABLE_EXCEPTIONS returns a status other than 0, the build with it
\* throws MemoryManagerException from the same place, thrown: with the file and line it
\* was given (lines 409, 422, 438: always those passed to Free).  log: what the call
\* wrote to logStream (what it writes when logStream != nullptr).  dtor: ~T() ran.
\* before: the statistics when the call began.  created: Allocate called CreatePage.
\* For Free, facts about its argument when the call began: blockStart (it is the first
\* byte of a block of one of the pages), held (Allocate returned it and it was not freed
\* since), heldSite (the call site of that Allocate), flag (the byte of its header's
\* allocated field), padsIntact (the padBytes bytes on both sides are all PAD), again
\* (the call before was the Allocate that returned it; prior: the statistics when that
\* Allocate began; created: that Allocate called CreatePage), refree (the call before
\* was a Free of it that returned 0).
NoSite == [file |-> 0, line |-> 0]

NoCall == [op |-> "none", ret |-> 0, status |-> 0, raised |-> FALSE,
           thrown |-> NoSite, log |-> <<>>,
           dtor |-> FALSE, before |-> ZeroStats, created |-> FALSE,
           blockStart |-> FALSE, held |-> FALSE, heldSite |-> NoSite, flag |-> 0,
           padsIntact |-> FALSE, again |-> FALSE, prior |-> ZeroStats, refree |-> FALSE,
           freed |-> 0, inPage |-> FALSE, deleted |-> "nothing"]

Settings ==
  [sizeofT : {MinSizeofT, MaxSizeofT},
   blocksPerPage : 1..MaxBlocksPerPage,
   padBytes : 0..MaxPadBytes,
   alignment : 1..MaxAlignment]

\* the state the constructor leaves (lines 289-322)
Constructed(s) ==
  /\ settings = s
  /\ blockSize = BlockSizeOf(s.sizeofT)
  /\ leftAlign = LeftAlignOf(s)
  /\ interAlign = InterAlignOf(s, BlockSizeOf(s.sizeofT))
  /\ leftChunkSize = LeftChunkSizeOf(s, BlockSizeOf(s.sizeofT), LeftAlignOf(s))
  /\ interChunkSize =
       InterChunkSizeOf(s, BlockSizeOf(s.sizeofT), InterAlignOf(s, BlockSizeOf(s.sizeofT)))
  /\ pageSize =
       CalculatePageSize(s, BlockSizeOf(s.sizeofT), LeftAlignOf(s),
                         InterAlignOf(s, BlockSizeOf(s.sizeofT)))
  /\ mem = <<>>
  /\ heap = <<>>
  /\ pageList = 0
  /\ freeList = 0
  /\ stats = ZeroStats
  /\ last = NoCall
  /\ handedOut = <<>>
  /\ blocks = {}
  /\ padWrites = 0
  /\ fresh = <<>>
  /\ ub = "no"

\* how a pool can be constructed.  ObjectAllocator(logFile, settings) (lines 281-286)
\* passes a new std::ofstream to the other constructor and sets ownsLogStream;
\* ObjectAllocator(logStream, settings) (lines 289-322) stores the stream it is given,
\* nullptr by default, and never sets ownsLogStream: the member is zero in a pool of
\* static storage duration and indeterminate in any other
Constructions ==
  {[logStream |-> "opened", ownsLogStream |-> 1]}
    \cup [logStream : {"nullptr", "caller"}, ownsLogStream : {0, Indeterminate}]

\* a pool of static storage duration given a stream of the caller
StaticPool == [logStream |-> "caller", ownsLogStream |-> 0]

\* the two members as the constructor k leaves them
LoggedTo(k) ==
  /\ logStream = k.logStream
  /\ ownsLogStream = k.ownsLogStream

\* the addresses of the pages whose bases are in h
PagesOf(h) == UNION {h[i]..(h[i] + pageSize - 1) : i \in 1..Len(h)}

\* the n bytes at a all lie in one of those pages
InPages(h, a, n) ==
  \E i \in 1..Len(h) : a >= h[i] /\ a + n <= h[i] + pageSize

(***************************************************************************)
(* The free list and the page list: intrusive stacks threaded through the  *)
(* first word of each node.                                                *)
(***************************************************************************)
\* Push(stack, obj): obj->next = stack; stack = obj
Push(m, stack, obj) == [mem |-> WriteWord(m, obj, stack), stack |-> obj]

\* Pop(stack) on a non-null stack whose top can be read
Pop(m, stack) == [ptr |-> stack, stack |-> ReadWord(m, stack)]

\* new char[pageSize]: the arrays lie one after the other, two margins apart
PageStride == pageSize + 2 * Margin

NewArray(h) == HeapBase + Len(h) * PageStride

\* the addresses of memory once n arrays were obtained
Addresses(n) ==
  IF n = 0 THEN {} ELSE (HeapBase - Margin)..(HeapBase + n * PageStride - Margin - 1)

(***************************************************************************)
(* CreatePage.  A cursor c is [mem, freeList, p, pushed]: the memory, the  *)
(* free list, the write position p of the code and the blocks pushed.      *)
(***************************************************************************)
\* memset(p, v, n); p += n
Fill(c, v, n) == [c EXCEPT !.mem = MemSet(c.mem, c.p, v, n), !.p = c.p + n]

\* FillBlock with its two statements exchanged: the link is written first and the
\* memset then covers it
FillBlock_PushThenMemset(c) ==
  [mem |-> MemSet(Push(c.mem, c.freeList, c.p).mem, c.p, UNALLOCATED, blockSize),
   freeList |-> c.p,
   p |-> c.p + blockSize,
   pushed |-> c.pushed \cup {c.p}]

\* memset(p, UNALLOCATED, blockSize); Push(freeList, p); p += blockSize
FillBlock(c) ==
  [mem |-> Push(MemSet(c.mem, c.p, UNALLOCATED, blockSize), c.freeList, c.p).mem,
   freeList |-> c.p,
   p |-> c.p + blockSize,
   pushed |-> c.pushed \cup {c.p}]

\* the body of the loop: a block, its right pad, the alignment filler, and the header
\* and left pad of the next block
CarveChunk(c) ==
  Fill(Fill(Fill(Fill(FillBlock(c), PAD, settings.padBytes), ALIGN, interAlign),
            0, headerSize),
       PAD, settings.padBytes)

RECURSIVE CarveBlocks(_, _)
\* for (i = 0; i < blocksPerPage - 1; ++i)
CarveBlocks(c, i) ==
  IF i >= settings.blocksPerPage - 1 THEN c ELSE CarveBlocks(CarveChunk(c), i + 1)

\* the new array with the page link written, the cursor behind the link
LinkPage(st, base) ==
  [mem |-> Push([x \in Addresses(Len(st.heap) + 1) |->
                   IF x < base - Margin THEN st.mem[x] ELSE Indeterminate],
                st.pageList, base).mem,
   freeList |-> st.freeList,
   p |-> base + PtrSize,
   pushed |-> {}]

\* the left alignment filler, the first header and its pad, the blocks but the last,
\* the last block and its right pad
LayOut(c) ==
  Fill(FillBlock(CarveBlocks(Fill(Fill(Fill(c, ALIGN, leftAlign), 0, headerSize),
                                  PAD, settings.padBytes),
                             0)),
       PAD, settings.padBytes)

\* the statistics after lines 579-591
PageStats(s) ==
  [s EXCEPT !.pagesInUse = Inc32(@),
            !.freeBlocks = Sub32(@, Sub32(0, settings.blocksPerPage)),
            !.mostPagesInUse = IF U32Less(@, Inc32(s.pagesInUse)) THEN Inc32(s.pagesInUse) ELSE @]

\* the pool once c is laid out on the array at base
Paged(st, base, c) ==
  [mem |-> c.mem,
   heap |-> Append(st.heap, base),
   pageList |-> base,
   freeList |-> c.freeList,
   stats |-> PageStats(st.stats),
   pushed |-> c.pushed]

\* st: [mem, heap, pageList, freeList, stats]; the result adds the blocks pushed
CreatePage(st) ==
  Paged(st, NewArray(st.heap), LayOut(LinkPage(st, NewArray(st.heap))))

(***************************************************************************)
(* Allocate(file, line).                                                   *)
(***************************************************************************)
GetDebugHeader(a) == a - settings.padBytes - headerSize

Cur == [mem |-> mem, heap |-> heap, pageList |-> pageList, freeList |-> freeList,
        stats |-> stats, pushed |-> {}]

\* the statistics after lines 363-369
AllocStats(s) ==
  [s EXCEPT !.allocations = Inc32(@),
            !.blocksInUse = Inc32(@),
            !.mostBlocksInUse = IF U32Less(@, Inc32(s.blocksInUse))
                                THEN Inc32(s.blocksInUse) ELSE @,
            !.freeBlocks = Dec32(@)]

\* the debug header of block p set to {true, file, line}
SetHeader(m, p, site) ==
  WriteWord(WriteWord(MemSet(m, GetDebugHeader(p), 1, 1),
                      GetDebugHeader(p) + HdrLine, site.line),
            GetDebugHeader(p) + HdrFilename, site.file)

\* lines 363-381 on the pool st, whose free list is not empty
TakeBlock(st, site, call) ==
  IF ~Readable(st.mem, st.freeList)
  THEN \* Pop dereferences a pointer to no memory
       /\ ub' = "fault"
       /\ last' = [call EXCEPT !.status = -1]
       /\ fresh' = <<>>
       /\ UNCHANGED <<mem, heap, pageList, freeList, stats, handedOut, blocks>>
  ELSE /\ mem' = SetHeader(MemSet(st.mem, st.freeList, ALLOCATED, blockSize),
                           st.freeList, site)
       /\ heap' = st.heap
       /\ pageList' = st.pageList
       /\ freeList' = Pop(st.mem, st.freeList).stack
       /\ stats' = AllocStats(st.stats)
       /\ handedOut' = [x \in (DOMAIN handedOut) \cup {st.freeList} |->
                          IF x = st.freeList THEN site ELSE handedOut[x]]
       /\ blocks' = blocks \cup st.pushed
       /\ last' = [call EXCEPT !.ret = st.freeList]
       /\ fresh' = IF call.created THEN st.mem ELSE <<>>
       /\ ub' = IF InPages(st.heap, GetDebugHeader(st.freeList),
                           headerSize + settings.padBytes + blockSize)
                THEN ub ELSE "yes"

Allocate(site) ==
  /\ ub # "fault"
  /\ last.op # "~ObjectAllocator"
  /\ stats.allocations < MaxAllocations
  /\ freeList = 0 => Len(heap) < MaxPages
  /\ TakeBlock(IF freeList = 0 THEN CreatePage(Cur) ELSE Cur, site,
               [NoCall EXCEPT !.op = "Allocate", !.before = stats,
                              !.created = (freeList = 0)])
  /\ UNCHANGED <<logStream, ownsLogStream>>
  /\ UNCHANGED <<settings, blockSize, pageSize, leftAlign, interAlign, leftChunkSize,
                 interChunkSize, padWrites>>
  /\ UNCHANGED pointervars

(***************************************************************************)
(* Free(mem, file, line).                                                  *)
(***************************************************************************)
RECURSIVE FindPage(_, _, _, _)
\* the walk of the page list (lines 391-452) for address del, starting at pages, having
\* been at the nodes seen: it ends at no page, at the page that holds del, or it does
\* not end well (pages->next of a pointer to no memory, or a list that loops)
FindPage(m, pages, del, seen) ==
  IF pages = 0 THEN [kind |-> "none", page |-> 0]
  ELSE IF U32Less(Sub32(del, pages), pageSize) THEN [kind |-> "found", page |-> pages]
  ELSE IF pages \in seen \/ ~Readable(m, pages) THEN [kind |-> "fault", page |-> pages]
  ELSE FindPage(m, ReadWord(m, pages), del, seen \cup {pages})

\* line 401: ((d - left_offset) % interChunkSize) != 0, in unsigned arithmetic
Misaligned(del, page) ==
  LET d == Sub32(del, page)
      left_offset == Sub32(Sub32(leftChunkSize, settings.padBytes), blockSize)
  IN UMod32(Sub32(d, left_offset), interChunkSize) # 0

\* the addresses the pad loop of lines 428-442 reads
PadAddrs(del) ==
  {del - 1 - i : i \in 0..(settings.padBytes - 1)}
    \cup {del + blockSize + i : i \in 0..(settings.padBytes - 1)}

\* the byte at h holds a bool
BoolAt(h) == h \in DOMAIN mem /\ mem[h] \in {0, 1}

\* what header->allocated can read as: the bool when the byte holds one, anything otherwise
HeaderReads(del) ==
  IF BoolAt(GetDebugHeader(del)) THEN {mem[GetDebugHeader(del)] = 1} ELSE BOOLEAN

\* whether the pad loop can find a byte that is not PAD
PadReads(del) ==
  IF \E x \in PadAddrs(del) : x \in DOMAIN mem /\ mem[x] \notin {PAD, Indeterminate}
  THEN {TRUE}
  ELSE IF \E x \in PadAddrs(del) : x \notin DOMAIN mem \/ mem[x] = Indeterminate
  THEN BOOLEAN
  ELSE {FALSE}

\* header->filename and header->line as the pad diagnostic prints them
HeaderSite(del) ==
  LET h == GetDebugHeader(del)
  IN IF Readable(mem, h + HdrFilename) /\ Readable(mem, h + HdrLine)
     THEN [file |-> ReadWord(mem, h + HdrFilename), line |-> ReadWord(mem, h + HdrLine)]
     ELSE [file |-> Indeterminate, line |-> Indeterminate]

\* the status of lines 393-452: 0 when every check passes or no page holds del
Validate(del, pg, allocated, padBad) ==
  IF pg.kind = "none" THEN 0
  ELSE IF Misaligned(del, pg.page) THEN ALIGN
  ELSE IF ~allocated THEN FREED
  ELSE IF padBad THEN PAD
  ELSE 0

\* Diagnostic printing the file and line passed to Free in the pad message too
Diagnostic_CallerSite(del, site, status) ==
  IF status = 0 THEN <<>> ELSE <<[status |-> status, site |-> site]>>

\* what the call writes to logStream, when there is one
Diagnostic(del, site, status) ==
  IF status = 0 THEN <<>>
  ELSE IF status = PAD THEN <<[status |-> PAD, site |-> HeaderSite(del)]>>
  ELSE <<[status |-> status, site |-> site]>>

\* FreeStats without line 467 (++stats.freeBlocks)
FreeStats_NoFreeBlocks(s) ==
  [s EXCEPT !.deallocations = Inc32(@), !.blocksInUse = Dec32(@)]

\* the statistics after lines 465-467
FreeStats(s) ==
  [s EXCEPT !.deallocations = Inc32(@), !.blocksInUse = Dec32(@), !.freeBlocks = Inc32(@)]

\* Release with the block put behind the head of the free list instead of on top
Release_PushBehindHead(m, del) ==
  LET m1 == MemSet(m, del, FREED, blockSize)
      m2 == MemSet(m1, GetDebugHeader(del), 0, headerSize)
  IN IF freeList = 0 \/ ~Readable(m2, freeList) THEN Push(m2, freeList, del)
     ELSE [mem |-> WriteWord(WriteWord(m2, del, ReadWord(m2, freeList)), freeList, del),
           stack |-> freeList]

\* lines 457-462 on memory m
Release(m, del) ==
  LET m1 == MemSet(m, del, FREED, blockSize)
      m2 == MemSet(m1, GetDebugHeader(del), 0, headerSize)
  IN Push(m2, freeList, del)

\* Outcome of a Free whose failed checks log and fall through to lines 454-468
Outcome_FallsThrough(del, status) ==
  [mem |-> Release(mem, del).mem, freeList |-> Release(mem, del).stack,
   stats |-> FreeStats(stats), dtor |-> TRUE]

\* the pool when the call returns: every check that fails returns (or throws) before
\* line 454, so lines 454-468 run only with status 0
Outcome(del, status) ==
  IF status # 0
  THEN [mem |-> mem, freeList |-> freeList, stats |-> stats, dtor |-> FALSE]
  ELSE [mem |-> Release(mem, del).mem, freeList |-> Release(mem, del).stack,
        stats |-> FreeStats(stats), dtor |-> TRUE]

\* whether the checks of a call that found del's page read what they may not: a byte
\* outside the pages, or as a bool a byte that holds none
UndefinedRead(del, allocated, status) ==
  \/ ~BoolAt(GetDebugHeader(del))
  \/ ~InPages(heap, GetDebugHeader(del), 1)
  \/ allocated /\ \E x \in PadAddrs(del) : ~InPages(heap, x, 1)
  \/ status = PAD /\ ~InPages(heap, GetDebugHeader(del), headerSize)

\* what is known of del when the call begins
FreeCall(del) ==
  [NoCall EXCEPT
     !.op = "Free", !.before = stats,
     !.inPage = InPages(heap, del, 1),
     !.blockStart = (del \in blocks),
     !.held = (del \in DOMAIN handedOut),
     !.heldSite = IF del \in DOMAIN handedOut THEN handedOut[del] ELSE NoSite,
     !.flag = IF GetDebugHeader(del) \in DOMAIN mem THEN mem[GetDebugHeader(del)]
              ELSE Indeterminate,
     !.padsIntact = \A x \in PadAddrs(del) : x \in DOMAIN mem /\ mem[x] = PAD,
     !.again = (last.op = "Allocate" /\ last.status = 0 /\ last.ret = del),
     !.prior = IF last.op = "Allocate" /\ last.status = 0 /\ last.ret = del
               THEN last.before ELSE ZeroStats,
     !.created = (last.op = "Allocate" /\ last.status = 0 /\ last.ret = del
                  /\ last.created),
     !.refree = (last.op = "Free" /\ last.status = 0 /\ freeList = del)]

\* the call returns status, the pool as out, having read and written as undef tells
Return(del, site, status, out, undef) ==
  /\ status = 0 => stats.deallocations < MaxDeallocations
  /\ mem' = out.mem
  /\ freeList' = out.freeList
  /\ stats' = out.stats
  /\ handedOut' = IF status = 0
                  THEN [x \in (DOMAIN handedOut) \ {del} |-> handedOut[x]]
                  ELSE handedOut
  /\ last' = [FreeCall(del) EXCEPT !.status = status,
                                   !.raised = (status # 0),
                                   !.thrown = IF status # 0 THEN site ELSE NoSite,
                                   !.dtor = out.dtor,
                                   !.freed = IF status = 0 THEN del ELSE 0,
                                   !.log = IF logStream = "nullptr" THEN <<>>
                                           ELSE Diagnostic(del, site, status)]
  /\ ub' = IF undef THEN "yes" ELSE ub

\* the checks made, with what header->allocated and the pad loop read
Checked(del, site, pg, allocated, status) ==
  Return(del, site, status, Outcome(del, status),
         \/ /\ pg.kind = "found"
            /\ ~Misaligned(del, pg.page)
            /\ UndefinedRead(del, allocated, status)
         \/ /\ status = 0
            /\ ~InPages(heap, GetDebugHeader(del),
                        headerSize + settings.padBytes + blockSize))

\* the call once the page list is walked
Walked(del, site, pg) ==
  IF pg.kind = "fault"
  THEN /\ ub' = "fault"
       /\ last' = [FreeCall(del) EXCEPT !.status = -1]
       /\ UNCHANGED <<mem, freeList, stats, handedOut>>
  ELSE \E allocated \in HeaderReads(del), padBad \in PadReads(del) :
         Checked(del, site, pg, allocated, Validate(del, pg, allocated, padBad))

Free(del, site) ==
  /\ ub # "fault"
  /\ last.op # "~ObjectAllocator"
  /\ Walked(del, site, FindPage(mem, pageList, del, {}))
  /\ fresh' = <<>>
  /\ UNCHANGED <<logStream, ownsLogStream>>
  /\ UNCHANGED <<settings, blockSize, pageSize, leftAlign, interAlign, leftChunkSize,
                 interChunkSize, heap, pageList, blocks, padWrites>>
  /\ UNCHANGED pointervars

(***************************************************************************)
(* The client overruns a block it holds by writing into one of its pads.   *)
(***************************************************************************)
WritePad(x) ==
  /\ ub # "fault"
  /\ last.op # "~ObjectAllocator"
  /\ padWrites < MaxPadWrites
  /\ InPages(heap, x, 1)
  /\ mem' = MemSet(mem, x, 0, 1)
  /\ padWrites' = padWrites + 1
  /\ last' = [NoCall EXCEPT !.op = "Write"]
  /\ fresh' = <<>>
  /\ UNCHANGED <<logStream, ownsLogStream>>
  /\ UNCHANGED <<settings, blockSize, pageSize, leftAlign, interAlign, leftChunkSize,
                 interChunkSize, heap, pageList, freeList, stats, handedOut, blocks, ub>>
  /\ UNCHANGED pointervars

(***************************************************************************)
(* ~ObjectAllocator() and DumpMemoryInUse(outputStream).                   *)
(***************************************************************************)
\* the pool was destroyed: no member function is called on it any more
Destroyed == last.op = "~ObjectAllocator"

\* the address of block i (from 0) of the page at page, as lines 604 and 614 compute it
DumpSlot(page, i) ==
  page + PtrSize + leftAlign + headerSize + settings.padBytes + i * interChunkSize

\* line 612 for the block at p: what is streamed when dbg->allocated reads as true.
\* Neither std::endl nor '\n' is streamed: the record ends no line
DumpRecord(m, p) ==
  <<[kind |-> "record", size |-> blockSize,
     line |-> ReadWord(m, GetDebugHeader(p) + HdrLine),
     file |-> ReadWord(m, GetDebugHeader(p) + HdrFilename)]>>

RECURSIVE DumpPage(_, _, _, _)
\* the loop of lines 606-615 over blocks i..blocksPerPage-1 of the page at page; a byte
\* that holds no bool reads as odd
DumpPage(m, page, i, odd) ==
  IF i >= settings.blocksPerPage THEN <<>>
  ELSE (IF m[GetDebugHeader(DumpSlot(page, i))] = 1
           \/ (m[GetDebugHeader(DumpSlot(page, i))] \notin {0, 1} /\ odd)
        THEN DumpRecord(m, DumpSlot(page, i)) ELSE <<>>)
       \o DumpPage(m, page, i + 1, odd)

RECURSIVE DumpMemoryInUse(_, _, _, _)
\* lines 595-618 from the node pages of the page list on, having been at the nodes seen:
\* what is streamed, and whether the walk ends at nullptr through pages of the pool
DumpMemoryInUse(m, pages, seen, odd) ==
  IF pages = 0 THEN [out |-> <<>>, ok |-> TRUE]
  ELSE IF pages \in seen \/ ~Readable(m, pages) \/ ~InPages(heap, pages, pageSize)
  THEN [out |-> <<>>, ok |-> FALSE]
  ELSE LET rest == DumpMemoryInUse(m, ReadWord(m, pages), seen \cup {pages}, odd)
       IN [out |-> DumpPage(m, pages, 0, odd) \o rest.out, ok |-> rest.ok]

\* a dump reads as a bool a byte that holds none
DumpReadsOdd ==
  \E k \in 1..Len(heap), i \in 0..(settings.blocksPerPage - 1) :
    ~BoolAt(GetDebugHeader(DumpSlot(heap[k], i)))

\* what ownsLogStream can read as in line 341: the bool when the member holds one,
\* anything otherwise
OwnsReads ==
  IF ownsLogStream = Indeterminate THEN BOOLEAN ELSE {ownsLogStream = 1}

\* lines 341-344: the stream deleted, if any
Deleted(owns) == IF owns /\ logStream # "nullptr" THEN logStream ELSE "nothing"

\* lines 326-346: the dump first when there is a logStream (lines 329-332), then every
\* page of the page list is popped and deleted (lines 335-339), after which the pool
\* is no more, then the logStream is deleted when ownsLogStream reads as true
Destructor(odd) ==
  /\ ub # "fault"
  /\ ~Destroyed
  /\ LET dump == DumpMemoryInUse(mem, pageList, {}, odd)
     IN IF ~dump.ok
        THEN \* pages->next of a pointer to no page
             /\ ub' = "fault"
             /\ last' = [NoCall EXCEPT !.op = "~ObjectAllocator", !.status = -1,
                                       !.before = stats]
             /\ UNCHANGED <<mem, heap, pageList>>
        ELSE \E owns \in OwnsReads :
             /\ ub' = IF (logStream # "nullptr" /\ DumpReadsOdd)
                         \/ ownsLogStream = Indeterminate
                      THEN "yes" ELSE ub
             /\ last' = [NoCall EXCEPT !.op = "~ObjectAllocator", !.before = stats,
                                       !.log = IF logStream = "nullptr" THEN <<>>
                                               ELSE dump.out,
                                       !.deleted = Deleted(owns)]
             /\ mem' = <<>>
             /\ heap' = <<>>
             /\ pageList' = 0
  /\ fresh' = <<>>
  /\ UNCHANGED <<logStream, ownsLogStream>>
  /\ UNCHANGED <<settings, blockSize, pageSize, leftAlign, interAlign, leftChunkSize,
                 interChunkSize, freeList, stats, handedOut, blocks, padWrites>>
  /\ UNCHANGED pointervars

(***************************************************************************)
(* Handle and Pointer<T> (MemoryHandle.h, MemoryHandle.cpp, Pointer.h), in *)
(* the debug build, with and without MEMORYMANAGER_ENABLE_EXCEPTIONS.      *)
(* This layer passes to the two pools it uses (Handle::HandleAllocator and *)
(* the ObjectAllocator<T> of the payloads) only addresses of whole blocks, *)
(* and writes into no pad: the pools are kept block by block here, a block *)
(* being in use (header->allocated), with the call site of its header, or  *)
(* on the free list.                                                       *)
(***************************************************************************)
\* a block filled with the byte v reads as this word in each of its fields
WordOfByte(v) == WordOf(v, v, v, v)

\* a pool before its first page
EmptyPool == [free |-> <<>>, inUse |-> {}, site |-> <<>>, pages |-> 0, stats |-> ZeroStats]

\* the blocks of page k (from 0) of the pool whose blocks lie from base on
PageBlocks(base, bpp, k) == {base + k * bpp + i : i \in 1..bpp}

\* the blocks of all pages of pool
BlocksOf(pool, base, bpp) == UNION {PageBlocks(base, bpp, k) : k \in 0..(pool.pages - 1)}

\* CreatePage (lines 498-592) when the free list is empty: the blocks of the new page
\* are pushed from the lowest address up, so that the highest is on top
NewPage(pool, base, bpp) ==
  [pool EXCEPT
     !.free = [i \in 1..bpp |-> base + pool.pages * bpp + (bpp + 1 - i)],
     !.site = [b \in (DOMAIN pool.site) \cup PageBlocks(base, bpp, pool.pages) |->
                 IF b \in DOMAIN pool.site THEN pool.site[b] ELSE NoSite],
     !.pages = @ + 1,
     !.stats = [@ EXCEPT !.pagesInUse = Inc32(@),
                         !.freeBlocks = Sub32(@, Sub32(0, bpp)),
                         !.mostPagesInUse = IF U32Less(@, Inc32(pool.stats.pagesInUse))
                                            THEN Inc32(pool.stats.pagesInUse) ELSE @]]

\* Allocate(file, line) (lines 349-382): the pool afterwards and the block returned
PoolAllocate(pool, base, bpp, site) ==
  LET paged == IF pool.free = <<>> THEN NewPage(pool, base, bpp) ELSE pool
  IN [pool |-> [paged EXCEPT !.free = Tail(@),
                             !.inUse = @ \cup {Head(paged.free)},
                             !.site[Head(paged.free)] = site,
                             !.stats = AllocStats(@)],
      ret |-> Head(paged.free)]

\* what Free(a, file, line) returns (lines 391-452) for an address a that is the start
\* of a block or in no page at all: 0 when no page holds it, then FREED when its header
\* is not marked allocated
PoolFreeStatus(pool, base, bpp, a) ==
  IF a \notin BlocksOf(pool, base, bpp) THEN 0
  ELSE IF a \notin pool.inUse THEN FREED
  ELSE 0

\* lines 454-468: the header cleared, the block pushed, the statistics updated
PoolRelease(pool, a) ==
  [pool EXCEPT !.free = <<a>> \o @,
               !.inUse = @ \ {a},
               !.site = [b \in DOMAIN @ |-> IF b = a THEN NoSite ELSE @[b]],
               !.stats = FreeStats(@)]

\* __FILE__ and __LINE__ of the MM_FREE of MemoryHandle.cpp line 88
RemoveRefSite == [file |-> 4198592, line |-> 88]

\* the call sites of the MM_PALLOC and MM_PFREE of the client
PallocSites == {[file |-> 4198656, line |-> 40], [file |-> 4198656, line |-> 50]}
PfreeSite == [file |-> 4198720, line |-> 60]

\* the Handle blocks and the payload blocks
HandleBlocks(pool) == BlocksOf(pool, HandleBase, HandleBlocksPerPage)
PayloadBlocks(pool) == BlocksOf(pool, PayloadBase, PayloadBlocksPerPage)

\* Handle::Handle() (MemoryHandle.cpp lines 47-52), the constructor of Handle::Null
NullConstructed == [memory |-> 0, allocator |-> 0, refCount |-> 1]

\* Handle::Handle(allocator, memory) (MemoryHandle.cpp lines 39-44)
HandleConstructed(allocator, memory) ==
  [memory |-> memory, allocator |-> allocator, refCount |-> 0]

\* the Handle members as they read in a block that was filled with the byte v and then
\* pushed onto a free list whose top was link: the link lies over memory
HandleFilled(v, link) ==
  [memory |-> link, allocator |-> WordOfByte(v), refCount |-> WordOfByte(v)]

\* The state a member function works on and what it did so far.  thrown: the exception
\* that left it; fault: it dereferenced a pointer to no object; undefined: it read or
\* wrote what it may not.  removed: for each RemoveRef, the Handle, the refCount it
\* left, whether memory was not nullptr, and whether the Handle block was released.
World ==
  [handle |-> handle, handlePool |-> handlePool, payloadPool |-> payloadPool,
   log |-> <<>>, thrown |-> "none", fault |-> FALSE, undefined |-> FALSE,
   removed |-> <<>>, addRefs |-> 0, removeRefs |-> 0]

\* the function does not go on: an exception propagates or the process is dead
Stopped(w) == w.thrown # "none" \/ w.fault

\* HandleAllocator.GetDebugHeader(h)->filename and ->line: those of the block's header,
\* or whatever lies before h when h is no block of the Handle pool (Handle::Null)
HandleHeader(w, h) ==
  IF h \in HandleBlocks(w.handlePool) THEN w.handlePool.site[h]
  ELSE [file |-> Indeterminate, line |-> Indeterminate]

\* a diagnostic streamed to HandleAllocator.GetLogStream(): the text up to the call site
\* given, then the file and line read from the header of h.  When h is no block of the
\* pool, the char const * read there points anywhere: streaming it crashes or not
Logged(w, error, site, h, crash) ==
  [w EXCEPT !.log = Append(@, [error |-> error, at |-> site,
                               allocated |-> HandleHeader(w, h)]),
            !.undefined = @ \/ h \notin HandleBlocks(w.handlePool),
            !.fault = @ \/ (h \notin HandleBlocks(w.handlePool) /\ crash)]

\* throw MemoryManagerException, in the build with MEMORYMANAGER_ENABLE_EXCEPTIONS
Throw(w, error) ==
  IF exceptions /\ ~Stopped(w) THEN [w EXCEPT !.thrown = error] ELSE w

\* AddRef without ++refCount
AddRef_NoIncrement(w, h) ==
  IF Stopped(w) THEN w ELSE [w EXCEPT !.addRefs = @ + 1]

\* Handle::AddRef (MemoryHandle.h lines 65-68) on the Handle at h
AddRef(w, h) ==
  IF Stopped(w) THEN w
  ELSE [w EXCEPT !.handle[h].refCount = Inc32(@),
                 !.addRefs = @ + 1,
                 !.undefined = @ \/ (h # NullAddr /\ h \notin w.handlePool.inUse)]

\* MM_FREE(Handle::HandleAllocator, this) of line 88: ObjectAllocator<Handle>::Free,
\* which throws where it would return a status other than 0 in the build with
\* exceptions; ~Handle() does nothing; the block is filled with FREED and pushed
FreeHandle(w, h, crash) ==
  IF PoolFreeStatus(w.handlePool, HandleBase, HandleBlocksPerPage, h) # 0
  THEN Throw(Logged(w, "FreedBlock", RemoveRefSite, h, crash), "FreedBlock")
  ELSE [w EXCEPT
          !.handlePool = PoolRelease(@, h),
          !.handle[h] = HandleFilled(FREED, IF w.handlePool.free = <<>> THEN 0
                                            ELSE Head(w.handlePool.free)),
          !.undefined = @ \/ h \notin HandleBlocks(w.handlePool)]

\* what the RemoveRef that left refCount at n did, appended to removed
Removal(w, before, h, n) ==
  [w EXCEPT !.removed =
     Append(@, [h |-> h, refCount |-> n,
                storage |-> before.handle[h].memory # 0,
                released |-> /\ h \in before.handlePool.inUse
                             /\ h \notin w.handlePool.inUse
                             /\ w.handlePool.stats.blocksInUse
                                  = Dec32(before.handlePool.stats.blocksInUse)])]

\* Handle::RemoveRef(filename, line) (MemoryHandle.cpp lines 55-90) on the Handle at h.
\* Line 61: --refCount.  Lines 64-75: below 0, the diagnostic and the throw.  Lines
\* 79-89: at 0 or below, with exceptions the throw when memory != nullptr (nothing is
\* streamed), else MM_FREE of the Handle.
RemoveRef(w, h, site, crash) ==
  IF Stopped(w) THEN w
  ELSE LET n == Dec32(w.handle[h].refCount)
           w1 == [w EXCEPT !.handle[h].refCount = n,
                           !.removeRefs = @ + 1,
                           !.undefined = @ \/ (h # NullAddr /\ h \notin w.handlePool.inUse)]
           w2 == IF n < 0
                 THEN Throw(Logged(w1, "NegativeRefCount", site, h, crash),
                            "NegativeRefCount")
                 ELSE w1
       IN Removal(IF Stopped(w2) \/ n > 0 THEN w2
                  ELSE IF exceptions /\ w2.handle[h].memory # 0
                       THEN Throw(w2, "DanglingReference")
                       ELSE FreeHandle(w2, h, crash),
                  w, h, n)

\* Handle::Free<T>(file, line) (MemoryHandle.h lines 94-128) on the Handle at h.
\* memory == nullptr: the diagnostic of lines 100-105 and the throw of line 107.
\* Otherwise line 112 calls Free(memory, file, line) of the pool that allocator points
\* to: a pointer that is not the payload pool's is a pointer to no object; the pool
\* throws by itself in the build with exceptions; lines 113-124 for another status
\* than 0; line 126: memory = nullptr.
HandleFree(w, h, site, crash) ==
  IF Stopped(w) THEN w
  ELSE IF w.handle[h].memory = 0
  THEN Throw(Logged(w, "DoubleFree", site, h, crash), "DoubleFree")
  ELSE IF w.handle[h].allocator # PayloadPoolAddr
  THEN [w EXCEPT !.fault = TRUE, !.undefined = TRUE]
  ELSE IF PoolFreeStatus(w.payloadPool, PayloadBase, PayloadBlocksPerPage,
                         w.handle[h].memory) # 0
  THEN IF exceptions THEN Throw(w, "FreedBlock")
       ELSE [Logged(w, "InvalidFree", site, h, crash) EXCEPT !.handle[h].memory = 0]
  ELSE [w EXCEPT !.payloadPool = PoolRelease(@, w.handle[h].memory),
                 !.handle[h].memory = 0,
                 !.undefined = @ \/ w.handle[h].memory \notin PayloadBlocks(w.payloadPool)]

\* Handle::Get<T>() (MemoryHandle.h lines 72-86) on the Handle at h
Get(w, h, crash) ==
  IF w.handle[h].memory = 0
  THEN Throw(Logged(w, "DanglingAccess", NoSite, h, crash), "DanglingAccess")
  ELSE w

\* Handle::IsNull() (MemoryHandle.h lines 162-165)
IsNull(h) == handle[h].memory = 0

\* The record of an operation on the Pointer object p.  h: the Handle the Pointer was
\* bound to when it began (for a constructor, the one it binds to).  status: "ok",
\* "thrown" (an exception left the operation), "terminated" (it left a destructor, which
\* is noexcept: std::terminate) or "fault".  refCount, storage, allocated, sharers: of h
\* when the operation began, its refCount, memory != nullptr, whether its block was in
\* use, and the number of other Pointers bound to it.  payloadPool: the payload pool
\* when the operation began.
NoOperation ==
  [name |-> "none", p |-> 0, from |-> 0, h |-> 0, status |-> "ok", thrown |-> "none",
   log |-> <<>>, removed |-> <<>>, addRefs |-> 0, removeRefs |-> 0,
   refCount |-> 0, storage |-> FALSE, allocated |-> FALSE, sharers |-> 0,
   payloadPool |-> EmptyPool]

\* the state before any Pointer exists: Handle::Null constructed, both pools empty
NoPointers ==
  /\ handle = [h \in {NullAddr} |-> NullConstructed]
  /\ handlePool = EmptyPool
  /\ payloadPool = EmptyPool
  /\ pointers = [p \in 1..MaxPointers |-> 0]
  /\ op = NoOperation
  /\ raises = 0

\* the Pointer objects that exist, and those bound to the Handle at h
Live == {p \in 1..MaxPointers : pointers[p] # 0}
BoundTo(h) == {p \in Live : pointers[p] = h}

\* no operation is possible once the process crashed or terminated
Running == ub # "fault" /\ op.status # "terminated"

\* streaming the char const * that lies before the Handle at h can crash only when h
\* is no block of the Handle pool
Crashes(h) == IF h \in HandleBlocks(handlePool) THEN {FALSE} ELSE BOOLEAN

\* an operation named name begins on the Pointer p, bound or to be bound to h
Begin(name, p, from, h) ==
  [NoOperation EXCEPT
     !.name = name, !.p = p, !.from = from, !.h = h,
     !.refCount = handle[h].refCount,
     !.storage = (handle[h].memory # 0),
     !.allocated = (h \in handlePool.inUse),
     !.sharers = Cardinality(BoundTo(h) \ {p}),
     !.payloadPool = payloadPool]

\* the operation call ends with the state w; done: the Pointers when it ran to its end.
\* An exception leaves the Pointer as it was; one that leaves a destructor terminates
End(call, w, done) ==
  /\ w.thrown # "none" => raises < MaxRaises
  /\ handle' = w.handle
  /\ handlePool' = w.handlePool
  /\ payloadPool' = w.payloadPool
  /\ pointers' = IF Stopped(w) THEN pointers ELSE done
  /\ op' = [call EXCEPT
              !.status = IF w.fault THEN "fault"
                         ELSE IF w.thrown = "none" THEN "ok"
                         ELSE IF call.name = "~Pointer" THEN "terminated"
                         ELSE "thrown",
              !.thrown = w.thrown, !.log = w.log, !.removed = w.removed,
              !.addRefs = w.addRefs, !.removeRefs = w.removeRefs]
  /\ raises' = IF w.thrown # "none" THEN raises + 1 ELSE raises
  /\ ub' = IF w.fault THEN "fault" ELSE IF w.undefined THEN "yes" ELSE ub
  /\ UNCHANGED <<exceptions, poolvars>>

\* Pointer() and Pointer(nullptr) (Pointer.h lines 23-27, 37-41)
NullConstruct(p) ==
  /\ Running
  /\ pointers[p] = 0
  /\ End(Begin("Pointer()", p, 0, NullAddr), AddRef(World, NullAddr),
         [pointers EXCEPT ![p] = NullAddr])

\* the Handle pool and the Handle objects after HandleAllocator.Allocate(file, line)
\* and the placement new of MemoryHandle.cpp line 21: a block of a new page reads as
\* UNALLOCATED bytes under its link until it is allocated
CreateHandle(w, memory, site) ==
  LET got == PoolAllocate(w.handlePool, HandleBase, HandleBlocksPerPage, site)
  IN [w EXCEPT
        !.handlePool = got.pool,
        !.handle = [h \in (DOMAIN w.handle) \cup HandleBlocks(got.pool) |->
                      IF h = got.ret THEN HandleConstructed(PayloadPoolAddr, memory)
                      ELSE IF h \in DOMAIN w.handle THEN w.handle[h]
                      ELSE HandleFilled(UNALLOCATED,
                                        IF h - 1 \in HandleBlocks(got.pool)
                                             /\ h - 1 \notin DOMAIN w.handle
                                        THEN h - 1 ELSE 0)]]

\* MM_PALLOC(allocator, constructor) (Pointer.h lines 237-241, 253): MM_ALLOC on the
\* payload pool, CreateHandle, Pointer(Handle &) (lines 30-34); the Pointer returned
\* is that object or a move of it (lines 51-55) whose source is destroyed (lines 67-70)
\* at once, which leaves the same refCount
PointerAllocate(p, site) ==
  /\ Running
  /\ pointers[p] = 0
  /\ payloadPool.stats.allocations < MaxPallocs
  /\ LET block == PoolAllocate(payloadPool, PayloadBase, PayloadBlocksPerPage, site)
         made == CreateHandle([World EXCEPT !.payloadPool = block.pool], block.ret, site)
         h == Head(IF handlePool.free = <<>>
                   THEN NewPage(handlePool, HandleBase, HandleBlocksPerPage).free
                   ELSE handlePool.free)
     IN End([Begin("PointerAllocate", p, 0, NullAddr) EXCEPT !.h = h],
            AddRef(made, h), [pointers EXCEPT ![p] = h])

\* Pointer(Pointer const &) and Pointer(Pointer &&) (Pointer.h lines 44-48, 51-55)
CopyConstruct(p, q) ==
  /\ Running
  /\ pointers[p] = 0
  /\ pointers[q] # 0
  /\ End(Begin("Pointer(rhs)", p, q, pointers[q]), AddRef(World, pointers[q]),
         [pointers EXCEPT ![p] = pointers[q]])

\* operator=(Pointer const &) and operator=(Pointer &&) (Pointer.h lines 73-82, 85-94)
\* on the Pointer p with rhs the Pointer q
Assign(p, q) ==
  /\ Running
  /\ pointers[p] # 0
  /\ pointers[q] # 0
  /\ \E crash \in Crashes(pointers[p]) :
       End(Begin("operator=", p, q, pointers[p]),
           IF p = q THEN World
           ELSE AddRef(RemoveRef(World, pointers[p], NoSite, crash), pointers[q]),
           [pointers EXCEPT ![p] = pointers[q]])

\* operator=(std::nullptr_t const &) (Pointer.h lines 97-103)
AssignNull(p) ==
  /\ Running
  /\ pointers[p] # 0
  /\ \E crash \in Crashes(pointers[p]) :
       End(Begin("operator=(nullptr)", p, 0, pointers[p]),
           AddRef(RemoveRef(World, pointers[p], NoSite, crash), NullAddr),
           [pointers EXCEPT ![p] = NullAddr])

\* Pointer::Free(file, line) (Pointer.h lines 211-217), MM_PFREE
PointerFree(p, site) ==
  /\ Running
  /\ pointers[p] # 0
  /\ \E crash \in Crashes(pointers[p]) :
       End(Begin("Free", p, 0, pointers[p]),
           AddRef(RemoveRef(HandleFree(World, pointers[p], site, crash),
                            pointers[p], site, crash),
                  NullAddr),
           [pointers EXCEPT ![p] = NullAddr])

\* ~Pointer() (Pointer.h lines 67-70)
Destroy(p) ==
  /\ Running
  /\ pointers[p] # 0
  /\ \E crash \in Crashes(pointers[p]) :
       End(Begin("~Pointer", p, 0, pointers[p]),
           RemoveRef(World, pointers[p], NoSite, crash),
           [pointers EXCEPT ![p] = 0])

\* operator*, operator-> and Get (Pointer.h lines 154-175): handle->Get<T>()
Dereference(p) ==
  /\ Running
  /\ pointers[p] # 0
  /\ \E crash \in Crashes(pointers[p]) :
       End(Begin("operator*", p, 0, pointers[p]), Get(World, pointers[p], crash),
           pointers)

\* operator bool (Pointer.h lines 118-121) of the Pointer p
Converts(p) == ~IsNull(pointers[p])

(***************************************************************************)
(* The two specifications: the pool by itself, byte by byte, and the       *)
(* Pointers over the Handle pool and a payload pool.                       *)
(***************************************************************************)
\* an address the caller passes to Free that lies in no page of the pool, any page the
\* pool has or none: the place behind the arrays obtained so far
OutsidePages(h) == {NewArray(h)}

Init ==
  \E s \in Settings :
    Constructed(s) /\ LoggedTo(StaticPool) /\ NoPointers /\ exceptions = FALSE

Next ==
  \/ \E site \in AllocSites : Allocate(site)
  \/ \E del \in PagesOf(heap) : Free(del, FreeSite)
  \/ \E b \in DOMAIN handedOut : \E x \in PadAddrs(b) : WritePad(x)
  \/ \E odd \in BOOLEAN : Destructor(odd)

Spec == Init /\ [][Next]_vars

\* a caller that allocates and passes to Free addresses that lie in no page
StrayNext ==
  \/ \E site \in AllocSites : Allocate(site)
  \/ \E del \in OutsidePages(heap) : Free(del, FreeSite)

StraySpec == Init /\ [][StrayNext]_vars

\* pools built by either constructor, in any storage, used and destroyed
LogInit ==
  \E s \in Settings, k \in Constructions :
    Constructed(s) /\ LoggedTo(k) /\ NoPointers /\ exceptions = FALSE

LogNext ==
  \/ \E site \in AllocSites : Allocate(site)
  \/ \E odd \in BOOLEAN : Destructor(odd)

LogSpec == LogInit /\ [][LogNext]_vars

\* the settings of the payload pool under the Pointers
PayloadSettings ==
  [sizeofT |-> MinSizeofT, blocksPerPage |-> PayloadBlocksPerPage, padBytes |-> 0,
   alignment |-> 1]

\* either build: with or without MEMORYMANAGER_ENABLE_EXCEPTIONS
PointerInit ==
  Constructed(PayloadSettings) /\ LoggedTo(StaticPool) /\ NoPointers
    /\ exceptions \in BOOLEAN

PointerNext ==
  \/ \E p \in 1..MaxPointers : NullConstruct(p)
  \/ \E p \in 1..MaxPointers, site \in PallocSites : PointerAllocate(p, site)
  \/ \E p, q \in 1..MaxPointers : CopyConstruct(p, q)
  \/ \E p, q \in 1..MaxPointers : Assign(p, q)
  \/ \E p \in 1..MaxPointers : AssignNull(p)
  \/ \E p \in 1..MaxPointers : PointerFree(p, PfreeSite)
  \/ \E p \in 1..MaxPointers : Destroy(p)
  \/ \E p \in 1..MaxPointers : Dereference(p)

PointerSpec == PointerInit /\ [][PointerNext]_vars

(***************************************************************************)
(* Properties.                                                             *)
(***************************************************************************)
\* the last call was a Free that returned (or threw) what last.status tells
FreeReturned == last.op = "Free" /\ last.status # -1

\* the last call was an Allocate that returned
AllocateReturned == last.op = "Allocate" /\ last.status # -1

\* no call so far read or wrote outside the pages or read a bool from a byte holding none
Defined == ub = "no"

\* C1: after any sequence of Allocate and Free calls on in-page addresses, whether they
\* succeed or are rejected, freeBlocks + blocksInUse = pagesInUse * blocksPerPage.  The
\* counters are unsigned: one whose representative is negative is 2^31 or more, more
\* than the blocks of MaxPages pages.
C1_BlocksConserved ==
  (Defined /\ (FreeReturned \/ AllocateReturned)) =>
    /\ stats.freeBlocks >= 0
    /\ stats.blocksInUse >= 0
    /\ stats.freeBlocks + stats.blocksInUse = stats.pagesInUse * settings.blocksPerPage

\* C2: after any sequence of Allocate and Free calls, allocations - deallocations =
\* blocksInUse, and blocksInUse is the number of blocks Allocate handed out that were
\* not since freed successfully.
C2_InUseCounted ==
  (Defined /\ (FreeReturned \/ AllocateReturned)) =>
    /\ Sub32(stats.allocations, stats.deallocations) = stats.blocksInUse
    /\ stats.blocksInUse = Cardinality(DOMAIN handedOut)

\* C3: Free of the first byte of a block that is free (never handed out since its page
\* was created, or freed and not handed out again) returns FREED and changes no
\* statistic; a Free of the address a successful Free has just released returns FREED.
C3_DoubleFreeRejected ==
  /\ (FreeReturned /\ last.blockStart /\ ~last.held) =>
       (last.status = FREED /\ stats = last.before /\ ~last.dtor)
  /\ (FreeReturned /\ last.refree) => last.status = FREED

\* C4: Free of an address inside a page that is not the first byte of a block of that
\* page returns ALIGN, also where d < left_offset and d - left_offset wraps.
C4_NonBlockStartIsAlign ==
  (Defined /\ FreeReturned /\ ~last.blockStart) => last.status = ALIGN

\* C5: Free of the first byte of an allocated block with a pad byte that is not PAD
\* returns PAD and logs the file and line its header got from Allocate, not those given
\* to Free; with every pad byte PAD (always so when padBytes = 0) it does not return PAD.
C5_PadCanaries ==
  /\ (FreeReturned /\ last.blockStart /\ last.held /\ ~last.padsIntact) =>
       /\ last.status = PAD
       /\ last.log = <<[status |-> PAD, site |-> last.heldSite]>>
  /\ (FreeReturned /\ last.blockStart /\ last.held /\ last.padsIntact) =>
       last.status # PAD

\* a block with a spoilt pad was freed: PAD, reported with the site of its Allocate
C5_Witness ==
  /\ Defined /\ FreeReturned /\ last.blockStart /\ last.held /\ ~last.padsIntact
  /\ last.status = PAD
  /\ last.log = <<[status |-> PAD, site |-> last.heldSite]>>
  /\ last.heldSite \in AllocSites

\* C6: a Free that fails validation (ALIGN, FREED or PAD, returned or thrown) leaves the
\* free list, the page list, every byte of the pages and all seven statistics as they
\* were, and does not run the destructor of the payload.
C6_FailedFreeChangesNothing ==
  [][(last'.op = "Free" /\ last'.status \in {ALIGN, FREED, PAD}) =>
       /\ mem' = mem
       /\ freeList' = freeList
       /\ pageList' = pageList
       /\ heap' = heap
       /\ stats' = stats
       /\ handedOut' = handedOut
       /\ ~last'.dtor]_vars

\* the Free of a block in use was rejected for a spoilt pad: the block is still in use
C6_Witness ==
  /\ Defined /\ FreeReturned /\ last.blockStart /\ last.held
  /\ last.status = PAD /\ last.raised /\ ~last.dtor
  /\ stats = last.before /\ stats.blocksInUse > 0

\* C7: Free checks alignment, then the allocated flag, then the pads: an address that
\* is no block start returns ALIGN whatever the header and pads next to it hold; a block
\* start whose header has allocated = false returns FREED even with spoilt pads; PAD is
\* returned only for a block start whose header has allocated = true.
C7_ValidationOrder ==
  Defined =>
    /\ (FreeReturned /\ ~last.blockStart) => last.status = ALIGN
    /\ (FreeReturned /\ last.blockStart /\ last.flag = 0) => last.status = FREED
    /\ (FreeReturned /\ last.status = PAD) => (last.blockStart /\ last.flag = 1)

\* C8 as stated: addr = Allocate(...) followed at once by Free(addr, ...) returns 0,
\* leaves blocksInUse as it was before the Allocate and freeBlocks as it was before the
\* Allocate.
C8_RoundTripRestores ==
  (FreeReturned /\ last.again) =>
    /\ last.status = 0
    /\ stats.blocksInUse = last.prior.blocksInUse
    /\ stats.freeBlocks = last.prior.freeBlocks

\* C8 amended: addr = Allocate(...) followed at once by Free(addr, ...) returns 0 and
\* leaves blocksInUse as it was before the Allocate; freeBlocks is as it was before the
\* Allocate when the free list was not empty then, and blocksPerPage more when the
\* Allocate had to create a page.
C8_RoundTripAmended ==
  (FreeReturned /\ last.again) =>
    /\ last.status = 0
    /\ stats.blocksInUse = last.prior.blocksInUse
    /\ stats.freeBlocks =
         Sub32(last.prior.freeBlocks,
               Sub32(0, IF last.created THEN settings.blocksPerPage ELSE 0))

\* a round trip whose Allocate created a page
C8_Witness ==
  /\ Defined /\ FreeReturned /\ last.again /\ last.status = 0
  /\ last.created
  /\ stats.freeBlocks = last.prior.freeBlocks + settings.blocksPerPage

\* the page CreatePage has just laid out: its base and, from the layout of the
\* constructor, its blocks
FreshBase == heap[Len(heap)]

FreshBlocks ==
  {FreshBase + PtrSize + leftAlign + headerSize + settings.padBytes + k * interChunkSize :
     k \in 0..(settings.blocksPerPage - 1)}

\* every pad byte of the fresh page is PAD and every alignment byte is ALIGN
FreshPadsAndFiller ==
  /\ \A b \in FreshBlocks : \A x \in PadAddrs(b) : fresh[x] = PAD
  /\ \A i \in 0..(leftAlign - 1) : fresh[FreshBase + PtrSize + i] = ALIGN
  /\ \A b \in FreshBlocks : \A i \in 0..(interAlign - 1) :
       (b + interChunkSize) \in FreshBlocks =>
         fresh[b + blockSize + settings.padBytes + i] = ALIGN

\* C9 as stated: when CreatePage returns, every byte of every block of the new page is
\* UNALLOCATED, every pad byte PAD and every alignment byte ALIGN.
C9_FreshPageSignatures ==
  (AllocateReturned /\ last.created) =>
    /\ \A b \in FreshBlocks : \A i \in 0..(blockSize - 1) : fresh[b + i] = UNALLOCATED
    /\ FreshPadsAndFiller

\* C9 amended: when CreatePage returns, the first word of every block of the new page
\* is its free-list link (null in the lowest block, the block below in the others),
\* every byte of the block behind that word is UNALLOCATED (none when blockSize is the
\* pointer size), every pad byte is PAD and every alignment byte is ALIGN.
C9_FreshPageAmended ==
  (AllocateReturned /\ last.created) =>
    /\ FreshBlocks \subseteq blocks
    /\ \A b \in FreshBlocks :
         /\ ReadWord(fresh, b) =
              IF (b - interChunkSize) \in FreshBlocks THEN b - interChunkSize ELSE 0
         /\ \A i \in PtrSize..(blockSize - 1) : fresh[b + i] = UNALLOCATED
    /\ FreshPadsAndFiller

\* a fresh page of two blocks with pads and alignment filler, whose blocks are wider
\* than a pointer
C9_Witness ==
  /\ Defined /\ AllocateReturned /\ last.created
  /\ settings.blocksPerPage = 2 /\ settings.padBytes > 0 /\ interAlign > 0
  /\ blockSize > PtrSize
  /\ \A b \in FreshBlocks : fresh[b + PtrSize] = UNALLOCATED

\* C10: whatever the alignment (a power of two or not), the first byte of every block
\* Allocate returns lies a multiple of alignment behind the base of its page.
C10_BlockOffsetsAligned ==
  (AllocateReturned /\ last.ret \in blocks) =>
    \A i \in 1..Len(heap) :
      (last.ret >= heap[i] /\ last.ret < heap[i] + pageSize) =>
        (last.ret - heap[i]) % settings.alignment = 0

(***************************************************************************)
(* Handles and Pointers.                                                   *)
(***************************************************************************)
\* the RemoveRef calls of the last operation and the diagnostics it streamed
Removals == {op.removed[i] : i \in 1..Len(op.removed)}
Diagnostics == {op.log[i].error : i \in 1..Len(op.log)}

\* C11: no sequence of Pointer operations drops the last reference to a pool-allocated
\* Handle whose payload was not freed (refCount becomes 0 while memory != nullptr)
\* without that being flagged as DanglingReference, by a diagnostic or an exception.
C11_LastReferenceFlagged ==
  \A e \in Removals :
    (e.h # NullAddr /\ e.refCount = 0 /\ e.storage) =>
      ("DanglingReference" \in Diagnostics \/ op.thrown = "DanglingReference")

\* C12: between Pointer operations every Handle that a live Pointer is bound to has
\* refCount > 0 and, when it is a block of the Handle pool, is not back in the pool,
\* in both builds, also after a RemoveRef that threw.
C12_BoundHandlesAlive ==
  Running =>
    \A p \in Live :
      /\ handle[pointers[p]].refCount > 0
      /\ pointers[p] # NullAddr => pointers[p] \in handlePool.inUse

\* C13: Handle::Null's refCount is 1 plus the number of live Pointers bound to it, so at
\* least 1, and no RemoveRef brings it to 0 or below, which is when it would pass
\* Handle::Null to HandleAllocator.Free.
C13_NullHandleCounted ==
  /\ handle[NullAddr].refCount = 1 + Cardinality(BoundTo(NullAddr))
  /\ handle[NullAddr] = [NullConstructed EXCEPT !.refCount = handle[NullAddr].refCount]
  /\ NullAddr \notin handlePool.inUse
  /\ \A i \in 1..Len(handlePool.free) : handlePool.free[i] # NullAddr
  /\ \A e \in Removals : e.h = NullAddr => e.refCount >= 1

\* in the build without exceptions Free returned on a Pointer bound to Handle::Null,
\* having called RemoveRef on it, while every other Pointer was bound to it too
C13_Witness ==
  /\ op.name = "Free" /\ op.h = NullAddr /\ op.status = "ok" /\ op.removeRefs = 1
  /\ Cardinality(BoundTo(NullAddr)) = MaxPointers
  /\ handle[NullAddr].refCount = MaxPointers + 1

\* C14: an assignment q = p between two distinct Pointers bound to the same Handle h
\* leaves h's refCount as it was and does not return h to the Handle pool; p = p calls
\* neither AddRef nor RemoveRef.
C14_AssignmentNeutral ==
  op.name = "operator=" =>
    /\ op.from = op.p => op.addRefs = 0 /\ op.removeRefs = 0
    /\ (op.from # op.p /\ pointers[op.from] = op.h) =>
         /\ handle[op.h].refCount = op.refCount
         /\ \A e \in Removals : ~e.released /\ e.refCount > 0
         /\ op.allocated => op.h \in handlePool.inUse

\* p.Free() succeeded on a Pointer whose Handle holds a payload and is shared
SharedFreeSucceeded ==
  /\ op.name = "Free" /\ op.status = "ok" /\ op.log = <<>>
  /\ op.h # NullAddr /\ op.storage /\ op.sharers >= 1

\* C15: after p.Free() succeeds on a Pointer whose Handle h is shared with n >= 1 other
\* live Pointers, h's memory is nullptr, its refCount is n and p is bound to
\* Handle::Null; from then on, for as long as a Pointer q stays bound to h, q converts
\* to false and every dereference of q streams the dangling-access diagnostic, also
\* after the payload block was allocated again.
C15_FreedStaysDangling ==
  /\ [](SharedFreeSucceeded =>
          /\ handle[op.h].memory = 0
          /\ handle[op.h].refCount = op.sharers
          /\ pointers[op.p] = NullAddr
          /\ \A q \in BoundTo(op.h) : ~Converts(q))
  /\ [][\A q \in Live :
          (/\ pointers[q] # NullAddr
           /\ pointers[q] \in handlePool.inUse
           /\ ~Converts(q)
           /\ pointers'[q] = pointers[q]) =>
            /\ handle'[pointers[q]].memory = 0
            /\ pointers[q] \in handlePool'.inUse]_vars
  /\ []((op.name = "operator*" /\ op.h # NullAddr /\ ~op.storage) =>
          "DanglingAccess" \in Diagnostics)

\* C16: whenever RemoveRef leaves the refCount of a pool-allocated Handle at 0 or below,
\* the Handle is returned to the Handle pool (its blocksInUse drops by one), whether or
\* not a negative refCount or a dangling reference was detected, in both builds.
C16_ZeroRefCountReleases ==
  \A e \in Removals : (e.h # NullAddr /\ e.refCount <= 0) => e.released

\* C17: in both builds, a RemoveRef that brings refCount to 0 or below while memory is
\* not nullptr streams a DanglingReference diagnostic to the Handle pool's log stream.
C17_DanglingReferenceLogged ==
  \A e \in Removals :
    (e.h # NullAddr /\ e.refCount <= 0 /\ e.storage) => "DanglingReference" \in Diagnostics

(***************************************************************************)
(* The leak dump and the statistics.                                       *)
(***************************************************************************)
\* the lines of text in what was streamed: a line ends at a line terminator, and text
\* after the last terminator is one more line
LineCount(out) ==
  Cardinality({i \in 1..Len(out) : out[i].kind = "newline"})
    + (IF out # <<>> /\ out[Len(out)].kind # "newline" THEN 1 ELSE 0)

\* the records of the dump that carry the call site site
Records(out, site) ==
  {i \in 1..Len(out) : out[i].kind = "record" /\ out[i].file = site.file
                        /\ out[i].line = site.line}

\* the pool was destroyed and its destructor returned
Dumped == Destroyed /\ last.status # -1

\* C18: the leak dump written when a pool with a log stream is destroyed has exactly one
\* line for each block that Allocate returned and that was not freed with status 0
\* since: as many lines as blocksInUse, each with the file and line of that Allocate,
\* and none for a free block; it is written from the pages as they are before any is
\* released.
C18_LeakDumpLines ==
  Dumped =>
    /\ LineCount(last.log) = last.before.blocksInUse
    /\ LineCount(last.log) = Cardinality(DOMAIN handedOut)
    /\ Len(last.log) = Cardinality(DOMAIN handedOut)
    /\ \A site \in AllocSites :
         Cardinality(Records(last.log, site))
           = Cardinality({b \in DOMAIN handedOut : handedOut[b] = site})

\* C19: Pointer::Free on a Pointer whose Handle's memory is nullptr (freed through
\* another Pointer, or the Pointer is null) never calls the payload pool's Free: the
\* payload pool's free list and statistics are unchanged; the DoubleFree diagnostic is
\* streamed, and in the build without exceptions the Pointer then drops its reference
\* and is bound to Handle::Null.
C19_FreeOfEmptyHandle ==
  (op.name = "Free" /\ ~op.storage) =>
    /\ payloadPool = op.payloadPool
    /\ "DoubleFree" \in Diagnostics
    /\ ~exceptions => (op.removeRefs = 1 /\ pointers[op.p] = NullAddr)

\* C20: mostBlocksInUse >= blocksInUse and mostPagesInUse >= pagesInUse in every state,
\* and no operation decreases allocations, deallocations, pagesInUse, mostBlocksInUse
\* or mostPagesInUse (the counters are unsigned).
C20_StatisticsMonotone ==
  /\ [](/\ ~U32Less(stats.mostBlocksInUse, stats.blocksInUse)
        /\ ~U32Less(stats.mostPagesInUse, stats.pagesInUse))
  /\ [][/\ ~U32Less(stats'.allocations, stats.allocations)
        /\ ~U32Less(stats'.deallocations, stats.deallocations)
        /\ ~U32Less(stats'.pagesInUse, stats.pagesInUse)
        /\ ~U32Less(stats'.mostBlocksInUse, stats.mostBlocksInUse)
        /\ ~U32Less(stats'.mostPagesInUse, stats.mostPagesInUse)]_vars


\* C27: every debug-header lookup of the Handle diagnostics (Handle::Get, Handle::Free,
\* Handle::RemoveRef) is made for a Handle that is a block of the Handle pool: no
\* diagnostic of an operation carries a file and line read outside the pool's pages,
\* in particular none of operator* or Free on a Pointer bound to Handle::Null.
C27_HeaderLookupsInPool ==
  \A i \in 1..Len(op.log) : op.log[i].allocated.file # Indeterminate


RECURSIVE FreeListNodes(_, _, _)
\* the nodes of the list that starts at node, in order, after those of seq: the walk a
\* loop of Pop calls makes, ended at a node met twice or at a pointer to no memory
FreeListNodes(m, node, seq) ==
  IF node = 0 THEN seq
  ELSE IF (\E i \in 1..Len(seq) : seq[i] = node) \/ ~Readable(m, node)
  THEN Append(seq, node)
  ELSE FreeListNodes(m, ReadWord(m, node), Append(seq, node))

\* the free list as a sequence, and the set of its nodes
FreeSeq == FreeListNodes(mem, freeList, <<>>)

FreeSet == {FreeSeq[i] : i \in 1..Len(FreeSeq)}

\* the header of block b reads {allocated, filename, line}
HeaderIs(b, allocated, site) ==
  /\ mem[GetDebugHeader(b)] = allocated
  /\ \A k \in 1..(HdrFilename - 1) : mem[GetDebugHeader(b) + k] = 0
  /\ ReadWord(mem, GetDebugHeader(b) + HdrFilename) = site.file
  /\ ReadWord(mem, GetDebugHeader(b) + HdrLine) = site.line

\* the pool is alive and no call so far had undefined behaviour
Sound == Defined /\ ~Destroyed

\* C22: in every state reached by Allocate and Free calls on in-page addresses, for
\* every block of every page: the header's allocated flag is set iff the block was
\* returned by Allocate and not since freed successfully iff the block is not on the
\* free list; a block handed out holds the file and line of its Allocate in its header,
\* a free block has an all-zero header.
C22_HeaderTracksBlock ==
  Sound =>
    \A b \in blocks :
      /\ (mem[GetDebugHeader(b)] = 1) <=> (b \in DOMAIN handedOut)
      /\ (b \in DOMAIN handedOut) <=> (b \notin FreeSet)
      /\ b \in DOMAIN handedOut => HeaderIs(b, 1, handedOut[b])
      /\ b \notin DOMAIN handedOut => HeaderIs(b, 0, NoSite)


\* the free list holds no node twice, holds only blocks of the pages, and has
\* freeBlocks nodes
FreeListSound ==
  /\ \A i, j \in 1..Len(FreeSeq) : FreeSeq[i] = FreeSeq[j] => i = j
  /\ FreeSet \subseteq blocks
  /\ Len(FreeSeq) = stats.freeBlocks

\* C23: after any sequence of Allocate and Free calls on in-page addresses, rejected
\* double frees and misaligned frees included, Allocate never returns the address of a
\* block that is handed out at the call; the free list holds no block twice, holds only
\* block start addresses of the pool's pages, and its length is freeBlocks.
C23_NoDoubleAllocation ==
  /\ [](Sound => FreeListSound)
  /\ [][(Sound /\ Sound' /\ last'.op = "Allocate" /\ last'.status = 0
         /\ stats'.allocations # stats.allocations) =>
          /\ last'.ret \notin DOMAIN handedOut
          /\ last'.ret \in blocks']_vars


\* pagesInUse is 0 before the first Allocate, and afterwards the pages are those the
\* greatest number of blocks in use needed
PagesAsNeeded ==
  IF stats.allocations = 0 THEN stats.pagesInUse = 0
  ELSE /\ (stats.pagesInUse - 1) * settings.blocksPerPage < stats.mostBlocksInUse
       /\ stats.mostBlocksInUse <= stats.pagesInUse * settings.blocksPerPage

\* C24: the free list is LIFO: an Allocate that immediately follows a successful
\* Free(a) returns a; a page is created only by an Allocate that finds the free list
\* empty; pagesInUse is 0 before the first Allocate and in every later state
\* (pagesInUse - 1) * blocksPerPage < mostBlocksInUse <= pagesInUse * blocksPerPage.
C24_LastFreedFirst ==
  /\ [](Sound => PagesAsNeeded)
  /\ [][(Sound /\ Sound' /\ last.op = "Free" /\ last.status = 0
         /\ last'.op = "Allocate" /\ last'.status = 0
         /\ stats'.allocations # stats.allocations) =>
          last'.ret = last.freed]_vars
  /\ [][(Sound /\ Sound' /\ stats'.pagesInUse # stats.pagesInUse) =>
          (last'.op = "Allocate" /\ freeList = 0)]_vars

\* a pool of two blocks a page whose one block handed out was freed and handed out
\* again: one page, never more than one block in use
C24_Witness ==
  /\ Sound
  /\ last.op = "Allocate" /\ last.status = 0 /\ ~last.created
  /\ last.ret \in blocks
  /\ settings.blocksPerPage = 2
  /\ stats.allocations = 2 /\ stats.deallocations = 1
  /\ stats.pagesInUse = 1 /\ stats.mostBlocksInUse = 1


\* the write cursor p of CreatePage when it returns from laying out the fresh page
FreshCursor ==
  LayOut([mem |-> fresh, freeList |-> 0, p |-> FreshBase + PtrSize, pushed |-> {}]).p

\* the blocks CreatePage pushed while it laid out the fresh page
FreshPushed ==
  LayOut([mem |-> fresh, freeList |-> 0, p |-> FreshBase + PtrSize, pushed |-> {}]).pushed

\* CreatePage wrote every byte of the array it obtained and none around it
FreshWritesInside ==
  /\ \A x \in FreshBase..(FreshBase + pageSize - 1) : fresh[x] # Indeterminate
  /\ \A x \in (FreshBase - Margin)..(FreshBase - 1) : fresh[x] = Indeterminate
  /\ \A x \in (FreshBase + pageSize)..(FreshBase + pageSize + Margin - 1) :
       fresh[x] = Indeterminate

\* the addresses DumpMemoryInUse visits in the fresh page
FreshDumped == {DumpSlot(FreshBase, i) : i \in 0..(settings.blocksPerPage - 1)}

\* the addresses of the fresh page that the alignment check of Free accepts
FreshAligned ==
  {d \in FreshBase..(FreshBase + pageSize - 1) : ~Misaligned(d, FreshBase)}

\* C25: for every configuration, CreatePage writes only inside
\* [page_base, page_base + pageSize) and its write cursor ends at page_base + pageSize;
\* the blocks it pushes start at page_base + pointer_size + leftAlign + headerSize +
\* padBytes + i * interChunkSize for i = 0..blocksPerPage-1, which is exactly the set
\* of addresses DumpMemoryInUse visits and exactly the set of addresses of the page
\* that the alignment check of Free accepts.
C25_LayoutAgrees ==
  (AllocateReturned /\ last.created) =>
    /\ FreshWritesInside
    /\ FreshCursor = FreshBase + pageSize
    /\ FreshPushed = FreshBlocks
    /\ FreshPushed = blocks \cap (FreshBase..(FreshBase + pageSize - 1))
    /\ FreshPushed = FreshDumped
    /\ FreshPushed = FreshAligned


\* C26: Free called with an address that lies in none of the pool's pages, any address
\* when the pool has no page yet included, does not modify the pool: the free list,
\* blocksInUse, freeBlocks and deallocations are unchanged and the address is not
\* pushed onto the free list.
C26_OutsideFreeIgnored ==
  [][(last'.op = "Free" /\ last'.status # -1 /\ ~last'.inPage) =>
       /\ freeList' = freeList
       /\ stats'.blocksInUse = stats.blocksInUse
       /\ stats'.freeBlocks = stats.freeBlocks
       /\ stats'.deallocations = stats.deallocations]_vars


\* C21: a log sink supplied by the caller to the pool constructor is never closed or
\* deleted by pool teardown; only a sink the pool itself opened from a log-file path
\* is deleted at teardown: the ownership flag is false for every pool constructed from
\* a caller-provided stream or with no stream.
C21_CallerStreamKept ==
  /\ (Destroyed /\ logStream # "opened") => ownsLogStream = 0
  /\ Destroyed => last.deleted \in {"nothing", "opened"}
  /\ (Dumped /\ logStream = "opened") => last.deleted = "opened"

====
